---- MODULE Spec2Model ----
(***************************************************************************)
(* Yoda-LLM: conversation history and prompt renderer (BaseConversation,   *)
(* YodaConversation), the windowed session (YodaModel, YodaController,     *)
(* YodaView) with its initialization and generation worker threads and its *)
(* window, the command-line loops (main.py, cli.py) and the generation     *)
(* wrapper (util.prompt_util.prompt).                                      *)
(*                                                                         *)
(* Text is modelled as a sequence of tokens: the markers of the prompt     *)
(* format, the newline, the blank, and opaque words.                       *)
(***************************************************************************)
EXTENDS Integers, Sequences, FiniteSets, TLC

\* ------------------------------------------------------------------ bounds
\* longest history (questions, answers) of one conversation object
MaxTurns == 3
\* generation worker threads a session may start
MaxRequests == 2
\* clear_conversation calls in a session
MaxClears == 1
\* tokens one call of model.generate may add (max_new_tokens, scaled down)
MaxNewTokens == 2

\* ------------------------------------------------------------------- text
SOT == "<start_of_turn>"
EOT == "<end_of_turn>"
NL == "\n"
SP == " "
Whitespace == {NL, SP}

\* YodaConversation._system_prompt, the fixed persona preamble
YodaSystemPrompt == <<"You are a Yoda chatbot.">>

\* messages a user may send (the empty string is accepted by add_question)
Questions == {<<"Hello">>, <<>>}
\* what the user may leave in the entry
TypedTexts == {<<"Hello", SP>>}
\* messages a caller may hand to handle_user_message
Messages == {<<"Hello">>}
\* what tokenizer.decode may return for the generated tokens
Answers == {<<SP, "Greetings.", NL>>}

RECURSIVE LStrip(_)
LStrip(s) ==
  IF s # <<>> /\ Head(s) \in Whitespace THEN LStrip(Tail(s)) ELSE s

RECURSIVE RStrip(_)
RStrip(s) ==
  IF s # <<>> /\ s[Len(s)] \in Whitespace THEN RStrip(SubSeq(s, 1, Len(s) - 1)) ELSE s

\* str.strip()
Strip(s) == RStrip(LStrip(s))

\* sep.join(parts)
RECURSIVE Join(_, _)
Join(parts, sep) ==
  IF parts = <<>> THEN <<>>
  ELSE IF Len(parts) = 1 THEN parts[1]
  ELSE parts[1] \o sep \o Join(Tail(parts), sep)

EndsWith(s, suffix) ==
  /\ Len(s) >= Len(suffix)
  /\ SubSeq(s, Len(s) - Len(suffix) + 1, Len(s)) = suffix

Max(a, b) == IF a >= b THEN a ELSE b

\* ------------------------------------------------- BaseConversation.__str__
UserTurn(q) == <<SOT, "user", NL>> \o q \o <<EOT>>
ModelTurn(a) == <<SOT, "model", NL>> \o a \o <<EOT>>
OpenModelMarker == <<SOT, "model">>

\* the elif of the loop body: the open marker is appended at index a_len only
OpenMarkerAt(i, q_len, a_len) ==
  IF q_len > a_len /\ i = a_len THEN <<OpenModelMarker>> ELSE <<>>

\* the open marker appended after the last question, answered or not
LoopBodyAlwaysOpens(qs, as, i) ==
  (IF i < Len(qs) THEN <<UserTurn(qs[i + 1])>> ELSE <<>>)
  \o (IF i < Len(as) THEN <<ModelTurn(as[i + 1])>> ELSE <<>>)
  \o (IF i = Len(qs) - 1 THEN <<OpenModelMarker>> ELSE <<>>)

\* what iteration i (0-based) of the for loop appends to output
LoopBody(qs, as, i) ==
  (IF i < Len(qs) THEN <<UserTurn(qs[i + 1])>> ELSE <<>>)
  \o (IF i < Len(as) THEN <<ModelTurn(as[i + 1])>>
      ELSE OpenMarkerAt(i, Len(qs), Len(as)))

RECURSIVE LoopFrom(_, _, _, _)
LoopFrom(qs, as, i, max_len) ==
  IF i >= max_len THEN <<>>
  ELSE LoopBody(qs, as, i) \o LoopFrom(qs, as, i + 1, max_len)

Render(sp, qs, as) ==
  IF sp = <<>> /\ qs = <<>> /\ as = <<>> THEN <<>>
  ELSE Join((IF sp # <<>> THEN <<Strip(sp)>> ELSE <<>>)
            \o LoopFrom(qs, as, 0, Max(Len(qs), Len(as))),
            <<NL>>)

\* The closed role-tagged segments of a rendered string, in order of appearance:
\* SOT role NL text EOT, where the text holds no marker (a SOT before the EOT
\* starts another segment and leaves this one open).
RECURSIVE TextUpTo(_, _)
TextUpTo(s, i) ==
  IF i > Len(s) \/ s[i] \in {EOT, SOT} THEN <<>> ELSE <<s[i]>> \o TextUpTo(s, i + 1)

\* position of the EOT closing the segment whose SOT is at i, or 0
ClosingAt(s, i) ==
  IF /\ i + 2 <= Len(s)
     /\ s[i + 1] \in {"user", "model"}
     /\ s[i + 2] = NL
     /\ i + 3 + Len(TextUpTo(s, i + 3)) <= Len(s)
     /\ s[i + 3 + Len(TextUpTo(s, i + 3))] = EOT
  THEN i + 3 + Len(TextUpTo(s, i + 3)) ELSE 0

RECURSIVE ClosedFrom(_, _)
ClosedFrom(s, i) ==
  IF i > Len(s) THEN <<>>
  ELSE IF s[i] = SOT /\ ClosingAt(s, i) > 0
       THEN <<[role |-> s[i + 1], text |-> TextUpTo(s, i + 3)]>>
            \o ClosedFrom(s, ClosingAt(s, i) + 1)
       ELSE ClosedFrom(s, i + 1)

ClosedSegments(s) == ClosedFrom(s, 1)

\* ------------------------------------------------------------------ state
VARIABLES
  \* the conversation object the session (or the caller) currently holds
  system_prompt,    \* BaseConversation._system_prompt
  questions,        \* BaseConversation._questions
  answers,          \* BaseConversation._answers
  conv_id,          \* identity of the conversation object (a new one per clear)
  turn_log,         \* the turns a caller appended to the object, in arrival order
  rendered,         \* the last result of str(conversation), with what it was taken from
  \* YodaModel
  tokenizer,        \* "None" or "loaded"
  model,            \* "None" or "loaded"
  _is_initialized,
  _is_generating,
  init_pc,          \* position of the _initialize thread
  init_exc,         \* the words of the exception the _initialize thread caught
  last_progress,    \* the words of the last message given to progress_callback
  workers,          \* the _generate threads: position, locals, callbacks invoked
  \* the interface thread inside handle_user_message
  ui_pc,
  ui_message,
  \* YodaView
  status_var,
  send_button,
  input_entry,
  input_var,
  chat_text,        \* the last entry inserted into the chat display
  last_error,       \* the message of the last error dialog
  view_threads,     \* the threads that have executed a mutation of the view
  window,           \* the Tk root window: "open" or "destroyed"
  \* the command-line loops (main.py, cli.py)
  program,          \* which loop runs: "main" or "cli"
  cli_pc,           \* position of the loop
  stdin_line,       \* the line input() returned last
  user_input,       \* user_question (main) or user_input (cli)
  answer,           \* answer (main) or response (cli)
  exit_cause,       \* why the loop was left
  printed,          \* what the loop printed last
  \* one call of util.prompt_util.prompt
  prompt_pc,
  prompt_text,      \* the prompt argument, as the tokens of its text
  input_ids,
  new_tokens,       \* the tokens model.generate produced after the prompt
  outputs,
  output_text       \* the value returned

conv_vars == <<system_prompt, questions, answers, conv_id, turn_log, rendered>>
model_vars == <<tokenizer, model, _is_initialized, _is_generating, init_pc, init_exc,
               last_progress, workers>>
ui_vars == <<ui_pc, ui_message>>
view_vars == <<status_var, send_button, input_entry, input_var, chat_text, last_error, view_threads>>
cli_vars == <<program, cli_pc, stdin_line, user_input, answer, exit_cause, printed>>
prompt_vars == <<prompt_pc, prompt_text, input_ids, new_tokens, outputs, output_text>>
vars == <<conv_vars, model_vars, ui_vars, view_vars, window, cli_vars, prompt_vars>>

Workers == 1..MaxRequests

\* a _generate thread not started: its locals, the conversation object it
\* appended its question to, whether it has appended an answer, and how often
\* it has invoked each callback
NoWorker ==
  [pc |-> "idle", question |-> <<>>, answer |-> <<>>, failed |-> FALSE,
   conv |-> 0, answered |-> FALSE, responses |-> 0, errors |-> 0]

NeverRendered == [called |-> FALSE, out |-> <<>>, qs |-> <<>>, as |-> <<>>, log |-> <<>>]

\* ------------------------------------------- BaseConversation (mutation)
\* add_question(q)
AddQuestion(q) ==
  /\ questions' = Append(questions, q)
  /\ UNCHANGED <<system_prompt, answers, conv_id>>

\* add_answer(a)
AddAnswer(a) ==
  /\ answers' = Append(answers, a)
  /\ UNCHANGED <<system_prompt, questions, conv_id>>

\* str(conversation)
Str ==
  [called |-> TRUE, out |-> Render(system_prompt, questions, answers),
   qs |-> questions, as |-> answers, log |-> turn_log]

\* --------------------------------------------------- the session at start
\* YodaModel.__init__, then YodaController.__init__ up to the start of the
\* _initialize thread: input disabled, status and system message set by the
\* interface thread.
SessionStart ==
  /\ tokenizer = "None"
  /\ model = "None"
  /\ _is_initialized = FALSE
  /\ _is_generating = FALSE
  /\ init_pc = "progress_tokenizer"
  /\ init_exc = {}
  /\ last_progress = {}
  /\ workers = [w \in Workers |-> NoWorker]
  /\ ui_pc = "idle"
  /\ ui_message = <<>>
  /\ status_var = "Loading Yoda..."
  /\ send_button = "disabled"
  /\ input_entry = "disabled"
  /\ input_var = <<>>
  /\ chat_text = <<"system", <<"Initializing Yoda model. This may take a moment...">>>>
  /\ last_error = "none"
  /\ view_threads = {"interface"}
  /\ window = "open"

\* no command-line loop is running
NoCommandLine ==
  /\ program = "none"
  /\ cli_pc = "none"
  /\ stdin_line = <<>>
  /\ user_input = <<>>
  /\ answer = <<>>
  /\ exit_cause = "none"
  /\ printed = "none"

\* prompt has not been called
NoPromptCall ==
  /\ prompt_pc = "none"
  /\ prompt_text = <<>>
  /\ input_ids = <<>>
  /\ new_tokens = <<>>
  /\ outputs = <<>>
  /\ output_text = <<>>

\* a freshly constructed conversation object
EmptyConversation(sp) ==
  /\ system_prompt = sp
  /\ questions = <<>>
  /\ answers = <<>>
  /\ conv_id = 0
  /\ turn_log = <<>>
  /\ rendered = NeverRendered

\* ------------------------------------------------------------- YodaModel
\* is_ready()
IsReady == _is_initialized /\ model # "None" /\ tokenizer # "None"

\* what the tokenizer or model loader may say when it raises: the words
\* among those progress_callback looks for that the text of the exception holds
ExceptionWords == {{}, {"tokenizer"}, {"model"}}

\* the messages of the error dialogs
NotReadyNotice == "Model is not ready yet. Please wait for initialization to complete."
BusyNotice == "Yoda is already thinking. Please wait for the current response."
ModelNotReadyNotice == "Model is not ready yet. Please wait for initialization."
ModelBusyNotice == "Already generating a response. Please wait."
GenerationErrorNotice == "Error generating response"

\* ------------------------------------------------------------- YodaView
\* hide_loading(), executed by `thread`
HideLoading(thread) ==
  /\ status_var' = ""
  /\ send_button' = "normal"
  /\ input_entry' = "normal"
  /\ view_threads' = view_threads \cup {thread}

\* enable_input()
EnableInput(thread) ==
  /\ send_button' = "normal"
  /\ input_entry' = "normal"
  /\ view_threads' = view_threads \cup {thread}

\* show_error(error_message): the dialog, then hide_loading()
ShowError(thread, error_message) ==
  /\ last_error' = error_message
  /\ HideLoading(thread)

\* ------------------------------------------------------- YodaController
\* progress_callback(message), executed by the _initialize thread; words are
\* the words of message.lower() among tokenizer, model, ready, error
ProgressCallback(words) ==
  /\ last_progress' = words
  /\ IF "tokenizer" \in words
     THEN /\ status_var' = "Loading tokenizer..."
          /\ view_threads' = view_threads \cup {"initialize"}
          /\ UNCHANGED <<send_button, input_entry, chat_text>>
     ELSE IF "model" \in words /\ "ready" \notin words
     THEN /\ status_var' = "Loading model..."
          /\ view_threads' = view_threads \cup {"initialize"}
          /\ UNCHANGED <<send_button, input_entry, chat_text>>
     ELSE IF "ready" \in words
     THEN /\ status_var' = ""
          /\ chat_text' = <<"system", <<"Yoda model is ready! You can now start chatting.">>>>
          /\ EnableInput("initialize")
     ELSE IF "error" \in words
     THEN /\ status_var' = ""
          /\ EnableInput("initialize")
          /\ UNCHANGED chat_text
     ELSE UNCHANGED <<status_var, send_button, input_entry, chat_text, view_threads>>
  /\ UNCHANGED <<input_var, last_error>>

\* _on_response_received(response), executed by `thread`
OnResponseReceived(thread, response) ==
  /\ HideLoading(thread)
  /\ chat_text' = <<"yoda", response>>
  /\ UNCHANGED <<input_var, last_error>>

\* _on_error_occurred(error_message), executed by `thread`
OnErrorOccurred(thread, error_message) ==
  /\ ShowError(thread, error_message)
  /\ chat_text' = <<"system", <<"Error: ", error_message>>>>
  /\ UNCHANGED input_var

\* ------------------------------------- YodaModel.initialize_model._initialize
InitProgressTokenizer ==
  /\ window = "open"
  /\ init_pc = "progress_tokenizer"
  /\ ProgressCallback({"tokenizer"})
  /\ init_pc' = "load_tokenizer"
  /\ UNCHANGED <<conv_vars, tokenizer, model, _is_initialized, _is_generating, init_exc, workers, ui_vars>>
  /\ UNCHANGED <<window, cli_vars, prompt_vars>>

\* AutoTokenizer.from_pretrained returns or raises
InitLoadTokenizer ==
  /\ window = "open"
  /\ init_pc = "load_tokenizer"
  /\ \/ /\ tokenizer' = "loaded"
        /\ init_pc' = "progress_model"
        /\ UNCHANGED init_exc
     \/ /\ \E e \in ExceptionWords : init_exc' = e
        /\ init_pc' = "except"
        /\ UNCHANGED tokenizer
  /\ UNCHANGED <<conv_vars, last_progress, model, _is_initialized, _is_generating, workers, ui_vars, view_vars>>
  /\ UNCHANGED <<window, cli_vars, prompt_vars>>

InitProgressModel ==
  /\ window = "open"
  /\ init_pc = "progress_model"
  /\ ProgressCallback({"model"})
  /\ init_pc' = "load_model"
  /\ UNCHANGED <<conv_vars, tokenizer, model, _is_initialized, _is_generating, init_exc, workers, ui_vars>>
  /\ UNCHANGED <<window, cli_vars, prompt_vars>>

\* AutoModelForCausalLM.from_pretrained returns or raises
InitLoadModel ==
  /\ window = "open"
  /\ init_pc = "load_model"
  /\ \/ /\ model' = "loaded"
        /\ init_pc' = "set_initialized"
        /\ UNCHANGED init_exc
     \/ /\ \E e \in ExceptionWords : init_exc' = e
        /\ init_pc' = "except"
        /\ UNCHANGED model
  /\ UNCHANGED <<conv_vars, last_progress, tokenizer, _is_initialized, _is_generating, workers, ui_vars, view_vars>>
  /\ UNCHANGED <<window, cli_vars, prompt_vars>>

InitSetInitialized ==
  /\ window = "open"
  /\ init_pc = "set_initialized"
  /\ _is_initialized' = TRUE
  /\ init_pc' = "progress_ready"
  /\ UNCHANGED <<conv_vars, tokenizer, model, _is_generating, init_exc, last_progress, workers,
                 ui_vars, view_vars>>
  /\ UNCHANGED <<window, cli_vars, prompt_vars>>

InitProgressReady ==
  /\ window = "open"
  /\ init_pc = "progress_ready"
  /\ ProgressCallback({"model", "ready"})
  /\ init_pc' = "done"
  /\ UNCHANGED <<conv_vars, tokenizer, model, _is_initialized, _is_generating, init_exc, workers, ui_vars>>
  /\ UNCHANGED <<window, cli_vars, prompt_vars>>

\* the exception swallowed without a word to progress_callback
InitExceptSilent ==
  /\ window = "open"
  /\ init_pc = "except"
  /\ init_pc' = "failed"
  /\ UNCHANGED <<conv_vars, tokenizer, model, _is_initialized, _is_generating, init_exc,
                 last_progress, workers, ui_vars, view_vars>>
  /\ UNCHANGED <<window, cli_vars, prompt_vars>>

\* except Exception as e: progress_callback(f"Error: {e!s}")
InitExcept ==
  /\ window = "open"
  /\ init_pc = "except"
  /\ ProgressCallback({"error"} \cup init_exc)
  /\ init_pc' = "failed"
  /\ UNCHANGED <<conv_vars, tokenizer, model, _is_initialized, _is_generating, init_exc, workers, ui_vars>>
  /\ UNCHANGED <<window, cli_vars, prompt_vars>>

\* ------------------------------------- YodaModel.generate_response._generate
SetWorker(w, r) == [workers EXCEPT ![w] = r]

\* the flag cleared at the end of the try body instead of in finally
FinallyOnlyOnSuccess(failed) == failed

\* what the finally clause leaves in _is_generating
FinallyGenerating(failed) == FALSE

\* self._is_generating = True
GenSetGenerating(w) ==
  /\ window = "open"
  /\ workers[w].pc = "set_generating"
  /\ _is_generating' = TRUE
  /\ workers' = SetWorker(w, [workers[w] EXCEPT !.pc = "add_question"])
  /\ UNCHANGED <<conv_vars, tokenizer, model, _is_initialized, init_pc, init_exc, last_progress,
                 ui_vars, view_vars>>
  /\ UNCHANGED <<window, cli_vars, prompt_vars>>

\* self.conversation.add_question(question)
GenAddQuestion(w) ==
  /\ window = "open"
  /\ workers[w].pc = "add_question"
  /\ AddQuestion(workers[w].question)
  /\ UNCHANGED turn_log
  /\ workers' = SetWorker(w, [workers[w] EXCEPT !.pc = "prompt", !.conv = conv_id])
  /\ UNCHANGED <<rendered, tokenizer, model, _is_initialized, _is_generating, init_pc, init_exc,
                 last_progress, ui_vars, view_vars>>
  /\ UNCHANGED <<window, cli_vars, prompt_vars>>

\* a failure of prompt turned into an empty answer
GenPromptSwallowsFailure(w) ==
  /\ window = "open"
  /\ workers[w].pc = "prompt"
  /\ UNCHANGED rendered
  /\ \/ \E a \in Answers :
          workers' = SetWorker(w, [workers[w] EXCEPT !.pc = "add_answer", !.answer = a])
     \/ workers' = SetWorker(w, [workers[w] EXCEPT !.pc = "add_answer", !.failed = TRUE])
  /\ UNCHANGED <<system_prompt, questions, answers, conv_id, turn_log, tokenizer, model,
                 _is_initialized, _is_generating, init_pc, init_exc, last_progress,
                 ui_vars, view_vars>>
  /\ UNCHANGED <<window, cli_vars, prompt_vars>>

\* answer = prompt(self.model, self.tokenizer, str(self.conversation)):
\* returns the decoded continuation or raises (the rendered prompt goes to the
\* model and is kept nowhere)
GenPrompt(w) ==
  /\ window = "open"
  /\ workers[w].pc = "prompt"
  /\ UNCHANGED rendered
  /\ \/ \E a \in Answers :
          workers' = SetWorker(w, [workers[w] EXCEPT !.pc = "add_answer", !.answer = a])
     \/ workers' = SetWorker(w, [workers[w] EXCEPT !.pc = "except", !.failed = TRUE])
  /\ UNCHANGED <<system_prompt, questions, answers, conv_id, turn_log, tokenizer, model,
                 _is_initialized, _is_generating, init_pc, init_exc, last_progress,
                 ui_vars, view_vars>>
  /\ UNCHANGED <<window, cli_vars, prompt_vars>>

\* self.conversation.add_answer(answer)
GenAddAnswer(w) ==
  /\ window = "open"
  /\ workers[w].pc = "add_answer"
  /\ AddAnswer(workers[w].answer)
  /\ UNCHANGED turn_log
  /\ workers' = SetWorker(w, [workers[w] EXCEPT !.pc = "respond", !.answered = TRUE])
  /\ UNCHANGED <<rendered, tokenizer, model, _is_initialized, _is_generating, init_pc, init_exc,
                 last_progress, ui_vars, view_vars>>
  /\ UNCHANGED <<window, cli_vars, prompt_vars>>

\* response_callback(answer.strip()): the callback returns, or raises inside
\* the try block before it has changed the view
GenRespond(w) ==
  /\ window = "open"
  /\ workers[w].pc = "respond"
  /\ \/ /\ OnResponseReceived("generate", Strip(workers[w].answer))
        /\ workers' = SetWorker(w, [workers[w] EXCEPT !.pc = "finally",
                                                      !.responses = @ + 1])
     \/ /\ workers' = SetWorker(w, [workers[w] EXCEPT !.pc = "except",
                                                      !.responses = @ + 1])
        /\ UNCHANGED view_vars
  /\ UNCHANGED <<conv_vars, tokenizer, model, _is_initialized, _is_generating, init_pc, init_exc,
                 last_progress, ui_vars>>
  /\ UNCHANGED <<window, cli_vars, prompt_vars>>

\* except Exception as e: error_callback(f"Error generating response: {e!s}")
GenExcept(w) ==
  /\ window = "open"
  /\ workers[w].pc = "except"
  /\ OnErrorOccurred("generate", GenerationErrorNotice)
  /\ workers' = SetWorker(w, [workers[w] EXCEPT !.pc = "finally", !.errors = @ + 1])
  /\ UNCHANGED <<conv_vars, tokenizer, model, _is_initialized, _is_generating, init_pc, init_exc,
                 last_progress, ui_vars>>
  /\ UNCHANGED <<window, cli_vars, prompt_vars>>

\* finally: self._is_generating = False
GenFinally(w) ==
  /\ window = "open"
  /\ workers[w].pc = "finally"
  /\ _is_generating' = FinallyGenerating(workers[w].failed)
  /\ workers' = SetWorker(w, [NoWorker EXCEPT !.pc = "done"])
  /\ UNCHANGED <<conv_vars, tokenizer, model, _is_initialized, init_pc, init_exc, last_progress,
                 ui_vars, view_vars>>
  /\ UNCHANGED <<window, cli_vars, prompt_vars>>

GenerateStep(w) ==
  \/ GenSetGenerating(w)
  \/ GenAddQuestion(w)
  \/ GenPrompt(w)
  \/ GenAddAnswer(w)
  \/ GenRespond(w)
  \/ GenExcept(w)
  \/ GenFinally(w)

\* ------------------------------------------------- the interface thread
\* a worker thread the session has not started yet (the lowest one)
IdleWorkers == {w \in Workers : workers[w].pc = "idle"}
NextWorker == CHOOSE w \in IdleWorkers : \A v \in IdleWorkers : w <= v

\* YodaController.handle_user_message(message) up to the call of
\* generate_response; the entry text is left to the caller
HandleUserMessage(message) ==
  /\ window = "open"
  /\ ui_pc = "idle"
  /\ IF ~IsReady
     THEN /\ ShowError("interface", NotReadyNotice)
          /\ UNCHANGED <<chat_text, ui_pc, ui_message>>
     ELSE IF _is_generating
     THEN /\ ShowError("interface", BusyNotice)
          /\ UNCHANGED <<chat_text, ui_pc, ui_message>>
     ELSE /\ IdleWorkers # {}
          /\ chat_text' = <<"user", message>>
          /\ status_var' = "Yoda is typing..."
          /\ send_button' = "disabled"
          /\ input_entry' = "disabled"
          /\ view_threads' = view_threads \cup {"interface"}
          /\ ui_pc' = "generate_response"
          /\ ui_message' = message
          /\ UNCHANGED last_error
  /\ UNCHANGED <<conv_vars, model_vars>>
  /\ UNCHANGED <<window, cli_vars, prompt_vars>>

\* the controller's entry point called by any caller on the interface thread
CallHandleUserMessage ==
  /\ \E message \in Messages : HandleUserMessage(message)
  /\ UNCHANGED input_var

\* the user edits the entry
TypeText ==
  /\ window = "open"
  /\ ui_pc = "idle"
  /\ input_entry = "normal"
  /\ \E t \in TypedTexts : input_var' = t
  /\ UNCHANGED <<conv_vars, model_vars, ui_vars, status_var, send_button, input_entry,
                 chat_text, last_error, view_threads>>
  /\ UNCHANGED <<window, cli_vars, prompt_vars>>

\* YodaView._on_send_clicked through the Send button or the Return binding
OnSendClicked ==
  /\ send_button = "normal" \/ input_entry = "normal"
  /\ Strip(input_var) # <<>>
  /\ input_var' = <<>>
  /\ HandleUserMessage(Strip(input_var))

\* YodaModel.generate_response(question, response_callback, error_callback),
\* called by handle_user_message: the two checks, then the start of the thread
GenerateResponse ==
  /\ window = "open"
  /\ ui_pc = "generate_response"
  /\ IF ~IsReady
     THEN /\ OnErrorOccurred("interface", ModelNotReadyNotice)
          /\ UNCHANGED workers
     ELSE IF _is_generating
     THEN /\ OnErrorOccurred("interface", ModelBusyNotice)
          /\ UNCHANGED workers
     ELSE /\ workers' = SetWorker(NextWorker, [workers[NextWorker] EXCEPT
                                     !.pc = "set_generating", !.question = ui_message])
          /\ UNCHANGED view_vars
  /\ ui_pc' = "idle"
  /\ ui_message' = <<>>
  /\ UNCHANGED <<conv_vars, tokenizer, model, _is_initialized, _is_generating, init_pc, init_exc,
                 last_progress>>
  /\ UNCHANGED <<window, cli_vars, prompt_vars>>

\* YodaController.clear_conversation()
ClearConversation ==
  /\ window = "open"
  /\ ui_pc = "idle"
  /\ conv_id < MaxClears
  /\ questions' = <<>>
  /\ answers' = <<>>
  /\ conv_id' = conv_id + 1
  /\ chat_text' = <<"system", <<"Conversation cleared.">>>>
  /\ view_threads' = view_threads \cup {"interface"}
  /\ UNCHANGED <<system_prompt, turn_log, rendered, model_vars, ui_vars, status_var, send_button,
                 input_entry, input_var, last_error>>
  /\ UNCHANGED <<window, cli_vars, prompt_vars>>

\* ------------------------------------------------- the windowed session
Init ==
  /\ EmptyConversation(YodaSystemPrompt)
  /\ SessionStart
  /\ NoCommandLine
  /\ NoPromptCall

InitializeStep ==
  \/ InitProgressTokenizer
  \/ InitLoadTokenizer
  \/ InitProgressModel
  \/ InitLoadModel
  \/ InitSetInitialized
  \/ InitProgressReady
  \/ InitExcept

InterfaceStep ==
  \/ CallHandleUserMessage
  \/ TypeText
  \/ OnSendClicked
  \/ GenerateResponse
  \/ ClearConversation

Next ==
  \/ InitializeStep
  \/ InterfaceStep
  \/ \E w \in Workers : GenerateStep(w)

Spec == Init /\ [][Next]_vars

\* The threads are scheduled fairly and the calls they make return or raise.
FairSpec ==
  /\ Spec
  /\ WF_vars(InitializeStep)
  /\ WF_vars(GenerateResponse)
  /\ \A w \in Workers : WF_vars(GenerateStep(w))

\* ------------------------------------- the windowed session and its window
\* The user asks the window manager to close the window. _setup_bindings
\* binds <Return> only and nothing registers a WM_DELETE_WINDOW handler, so Tk
\* destroys the root, root.mainloop() returns and run() with it; the worker
\* threads are daemon threads and end with the process.
WmDeleteWindow ==
  /\ window = "open"
  /\ window' = "destroyed"
  /\ UNCHANGED <<conv_vars, model_vars, ui_vars, view_vars, cli_vars, prompt_vars>>

NextWindow == Next \/ WmDeleteWindow

SpecWindow == Init /\ [][NextWindow]_vars

\* --------------------------------- a conversation object used on its own
\* BaseConversation (empty preamble) or YodaConversation, driven by any
\* caller of add_question, add_answer and str.
InitConv ==
  /\ \E sp \in {<<>>, YodaSystemPrompt} : EmptyConversation(sp)
  /\ SessionStart
  /\ NoCommandLine
  /\ NoPromptCall

ConvAddQuestion ==
  /\ Len(questions) < MaxTurns
  /\ \E q \in Questions :
       /\ AddQuestion(q)
       /\ turn_log' = Append(turn_log, [role |-> "user", text |-> q])
  /\ UNCHANGED <<rendered, model_vars, ui_vars, view_vars>>
  /\ UNCHANGED <<window, cli_vars, prompt_vars>>

\* callers append an answer only for a question already appended (main, cli)
ConvAddAnswer ==
  /\ Len(answers) < Len(questions)
  /\ \E a \in Answers :
       /\ AddAnswer(a)
       /\ turn_log' = Append(turn_log, [role |-> "model", text |-> a])
  /\ UNCHANGED <<rendered, model_vars, ui_vars, view_vars>>
  /\ UNCHANGED <<window, cli_vars, prompt_vars>>

ConvStr ==
  /\ rendered' = Str
  /\ UNCHANGED <<system_prompt, questions, answers, conv_id, turn_log,
                 model_vars, ui_vars, view_vars>>
  /\ UNCHANGED <<window, cli_vars, prompt_vars>>

NextConv == ConvAddQuestion \/ ConvAddAnswer \/ ConvStr

SpecConv == InitConv /\ [][NextConv]_vars

\* ------------------------------------------- the command-line loops
\* A line of input is a sequence of characters.
UpperCase == <<"B", "D", "E", "G", "H", "I", "O", "Q", "T", "U", "X", "Y">>
LowerCase == <<"b", "d", "e", "g", "h", "i", "o", "q", "t", "u", "x", "y">>

LowerChar(c) ==
  IF \E i \in 1..Len(UpperCase) : UpperCase[i] = c
  THEN LowerCase[CHOOSE i \in 1..Len(UpperCase) : UpperCase[i] = c]
  ELSE c

\* str.lower()
Lower(s) == [i \in 1..Len(s) |-> LowerChar(s[i])]

Quit == <<"q", "u", "i", "t">>
Exit == <<"e", "x", "i", "t">>
Bye == <<"b", "y", "e">>
Goodbye == <<"g", "o", "o", "d", "b", "y", "e">>

\* the words main.py leaves its loop on
MainExitWords == {Quit, Exit, Bye, Goodbye}
\* the word cli.py leaves its loop on
CliExitWords == {Exit}

\* the lines input() may return
Lines ==
  {<<>>, <<SP>>, <<"h", "i">>, <<"H", "i", SP>>,
   Quit, Exit, <<"E", "X", "I", "T">>, Bye, <<"B", "y", "e">>, <<"G", "O", "O", "D", "B", "Y", "E">>}

CliFrame == UNCHANGED <<model_vars, ui_vars, view_vars, window, prompt_vars>>

\* input() returns a line: main.py strips it, skips an empty one and compares
\* it with its exit words; cli.py compares it as it is with "exit"
CliInput ==
  /\ cli_pc = "input"
  /\ Len(questions) < MaxTurns
  /\ \E line \in Lines :
       /\ stdin_line' = line
       /\ IF program = "main"
          THEN /\ user_input' = Strip(line)
               /\ IF Strip(line) = <<>>
                  THEN UNCHANGED <<cli_pc, exit_cause, printed>>
                  ELSE IF Lower(Strip(line)) \in MainExitWords
                  THEN /\ printed' = "farewell"
                       /\ cli_pc' = "ended"
                       /\ exit_cause' = "keyword"
                  ELSE /\ cli_pc' = "add_question"
                       /\ UNCHANGED <<exit_cause, printed>>
          ELSE /\ user_input' = line
               /\ IF Lower(line) \in CliExitWords
                  THEN /\ printed' = "farewell"
                       /\ cli_pc' = "ended"
                       /\ exit_cause' = "keyword"
                  ELSE /\ cli_pc' = "add_question"
                       /\ UNCHANGED <<exit_cause, printed>>
  /\ UNCHANGED <<conv_vars, program, answer>>
  /\ CliFrame

\* input() raises EOFError: main.py says farewell and breaks, cli.py has no
\* handler and the exception leaves yoda_chatbot
CliEndOfInput ==
  /\ cli_pc = "input"
  /\ exit_cause' = "eof"
  /\ IF program = "main"
     THEN cli_pc' = "ended" /\ printed' = "farewell"
     ELSE cli_pc' = "raised" /\ UNCHANGED printed
  /\ UNCHANGED <<conv_vars, program, stdin_line, user_input, answer>>
  /\ CliFrame

\* KeyboardInterrupt while the loop waits for a line or for the model
CliInterrupt ==
  /\ cli_pc \in {"input", "prompt"}
  /\ exit_cause' = "interrupt"
  /\ IF program = "main"
     THEN cli_pc' = "ended" /\ printed' = "farewell"
     ELSE cli_pc' = "raised" /\ UNCHANGED printed
  /\ UNCHANGED <<conv_vars, program, stdin_line, user_input, answer>>
  /\ CliFrame

\* conversation.add_question(user_question)
CliAddQuestion ==
  /\ cli_pc = "add_question"
  /\ AddQuestion(user_input)
  /\ cli_pc' = "prompt"
  /\ UNCHANGED <<turn_log, rendered, program, stdin_line, user_input, answer, exit_cause, printed>>
  /\ CliFrame

\* prompt(model, tokenizer, str(conversation)) returns
CliPrompt ==
  /\ cli_pc = "prompt"
  /\ \E a \in Answers : answer' = a
  /\ cli_pc' = "add_answer"
  /\ UNCHANGED <<conv_vars, program, stdin_line, user_input, exit_cause, printed>>
  /\ CliFrame

\* prompt raises an Exception: main.py prints it and goes on with the loop,
\* cli.py has no handler and the exception leaves yoda_chatbot
CliPromptRaises ==
  /\ cli_pc = "prompt"
  /\ IF program = "main"
     THEN /\ printed' = "error"
          /\ cli_pc' = "input"
          /\ UNCHANGED exit_cause
     ELSE /\ cli_pc' = "raised"
          /\ exit_cause' = "failure"
          /\ UNCHANGED printed
  /\ UNCHANGED <<conv_vars, program, stdin_line, user_input, answer>>
  /\ CliFrame

\* conversation.add_answer(answer)
CliAddAnswer ==
  /\ cli_pc = "add_answer"
  /\ AddAnswer(answer)
  /\ cli_pc' = "print"
  /\ UNCHANGED <<turn_log, rendered, program, stdin_line, user_input, answer, exit_cause, printed>>
  /\ CliFrame

\* print(answer.strip())
CliPrint ==
  /\ cli_pc = "print"
  /\ printed' = Strip(answer)
  /\ cli_pc' = "input"
  /\ UNCHANGED <<conv_vars, program, stdin_line, user_input, answer, exit_cause>>
  /\ CliFrame

\* main() or yoda_chatbot() up to its loop
InitCli ==
  /\ EmptyConversation(YodaSystemPrompt)
  /\ SessionStart
  /\ NoPromptCall
  /\ program \in {"main", "cli"}
  /\ cli_pc = "input"
  /\ stdin_line = <<>>
  /\ user_input = <<>>
  /\ answer = <<>>
  /\ exit_cause = "none"
  /\ printed = "banner"

NextCli ==
  \/ CliInput
  \/ CliEndOfInput
  \/ CliInterrupt
  \/ CliAddQuestion
  \/ CliPrompt
  \/ CliPromptRaises
  \/ CliAddAnswer
  \/ CliPrint

SpecCli == InitCli /\ [][NextCli]_vars

\* C11: a line equal to quit, exit, bye or goodbye in any letter case ends
\* the loop without raising; reading it appends nothing to the history and no
\* later step of the loop follows it.
C11_ExitWordEndsLoop ==
  /\ [](Lower(stdin_line) \in {Quit, Exit, Bye, Goodbye}
          => cli_pc = "ended" /\ exit_cause = "keyword")
  /\ [][(CliInput /\ Lower(stdin_line') \in {Quit, Exit, Bye, Goodbye})
          => UNCHANGED <<questions, answers>>]_vars

\* C12: a failure raised by a turn is reported and the loop reads the next
\* line; the loop is left only on an exit word, an interrupt or end of input.
C12_FailureIsReportedAndLoopContinues ==
  /\ [](cli_pc \in {"ended", "raised"} => exit_cause \in {"keyword", "interrupt", "eof"})
  /\ [][CliPromptRaises => (printed' = "error" /\ cli_pc' = "input")]_vars

\* ------------------------------------------- util.prompt_util.prompt
\* The tokenizer: a token id is the place of a piece of text in the vocabulary.
BOS == "<bos>"
EOS == "<eos>"
Vocabulary ==
  <<"<pad>", EOS, BOS, SOT, EOT, "user", "model", NL, SP,
    "You are a Yoda chatbot.", "Hello", "Greetings.">>
SpecialTokens == {"<pad>", EOS, BOS, SOT, EOT}

TokenId(piece) == CHOOSE id \in 1..Len(Vocabulary) : Vocabulary[id] = piece

\* tokenizer(prompt, return_tensors="pt")["input_ids"][0]: the beginning-of-
\* sequence token, then the ids of the pieces of the text
Tokenize(text) == <<TokenId(BOS)>> \o [i \in 1..Len(text) |-> TokenId(text[i])]

\* tokenizer.decode(ids, skip_special_tokens=True)
RECURSIVE Decode(_)
Decode(ids) ==
  IF ids = <<>> THEN <<>>
  ELSE (IF Vocabulary[Head(ids)] \in SpecialTokens THEN <<>> ELSE <<Vocabulary[Head(ids)]>>)
       \o Decode(Tail(ids))

\* the whole output decoded, prompt included
SliceNothing(output_tokens, input_len) == output_tokens

\* output_tokens[input_ids["input_ids"].shape[1]:]
Slice(output_tokens, input_len) == SubSeq(output_tokens, input_len + 1, Len(output_tokens))

\* the prompts prompt is called with
PromptTexts ==
  {<<>>,
   <<"Hello">>,
   Render(YodaSystemPrompt, <<<<"Hello">>>>, <<>>),
   Render(YodaSystemPrompt, <<<<"Hello">>, <<>>>>, <<<<SP, "Greetings.", NL>>>>)}

\* the token ids model.generate may sample
SampledIds == {TokenId("Greetings."), TokenId("Hello"), TokenId(NL), TokenId(EOT), TokenId(EOS)}

RECURSIVE SeqsUpTo(_, _)
SeqsUpTo(S, n) ==
  IF n = 0 THEN {<<>>}
  ELSE SeqsUpTo(S, n - 1) \cup {Append(g, x) : g \in {h \in SeqsUpTo(S, n - 1) : Len(h) = n - 1}, x \in S}

PromptFrame == UNCHANGED <<conv_vars, model_vars, ui_vars, view_vars, window, cli_vars>>

\* input_ids = tokenizer(prompt, return_tensors="pt").to(model.device)
PromptTokenize ==
  /\ prompt_pc = "tokenize"
  /\ input_ids' = Tokenize(prompt_text)
  /\ prompt_pc' = "generate"
  /\ UNCHANGED <<prompt_text, new_tokens, outputs, output_text>>
  /\ PromptFrame

\* outputs = model.generate(**input_ids, ...): for a causal model the prompt's
\* ids followed by at most max_new_tokens sampled ids; or the call raises
PromptGenerate ==
  /\ prompt_pc = "generate"
  /\ \/ \E generated \in SeqsUpTo(SampledIds, MaxNewTokens) :
          /\ new_tokens' = generated
          /\ outputs' = input_ids \o generated
          /\ prompt_pc' = "decode"
     \/ /\ prompt_pc' = "raised"
        /\ UNCHANGED <<new_tokens, outputs>>
  /\ UNCHANGED <<prompt_text, input_ids, output_text>>
  /\ PromptFrame

\* output_tokens = outputs[0][input length:]; return tokenizer.decode(...)
PromptReturn ==
  /\ prompt_pc = "decode"
  /\ output_text' = Decode(Slice(outputs, Len(input_ids)))
  /\ prompt_pc' = "returned"
  /\ UNCHANGED <<prompt_text, input_ids, new_tokens, outputs>>
  /\ PromptFrame

InitPrompt ==
  /\ EmptyConversation(YodaSystemPrompt)
  /\ SessionStart
  /\ NoCommandLine
  /\ prompt_pc = "tokenize"
  /\ prompt_text \in PromptTexts
  /\ input_ids = <<>>
  /\ new_tokens = <<>>
  /\ outputs = <<>>
  /\ output_text = <<>>

NextPrompt == PromptTokenize \/ PromptGenerate \/ PromptReturn

SpecPrompt == InitPrompt /\ [][NextPrompt]_vars

\* C14: prompt returns the decoding of the tokens generated after the prompt
\* and of nothing else: the value returned for prompt P and output P followed
\* by G is decode(G), whatever P is, and no piece of it comes from a token of
\* the prompt's part of the output.
C14_ReturnsOnlyGeneratedText ==
  prompt_pc = "returned"
    => /\ outputs = Tokenize(prompt_text) \o new_tokens
       /\ output_text = Decode(new_tokens)

\* a non-empty prompt, two tokens generated, one of them special
C14_Witness ==
  /\ prompt_pc = "returned"
  /\ Len(prompt_text) > 1
  /\ new_tokens = <<TokenId("Greetings."), TokenId(EOS)>>
  /\ output_text = <<"Greetings.">>

\* C4: whenever str() is taken of a history with more questions than answers,
\* the rendered string ends with the open assistant marker.
C4_OpenMarkerAtEnd ==
  (rendered.called /\ Len(rendered.qs) > Len(rendered.as))
    => EndsWith(rendered.out, OpenModelMarker)

\* C5: whenever str() is taken of a history with no more answers than
\* questions, its closed user and assistant segments are exactly the appended
\* turns, in the order in which they were appended.
C5_SegmentsInArrivalOrder ==
  (rendered.called /\ Len(rendered.as) <= Len(rendered.qs))
    => ClosedSegments(rendered.out) = rendered.log

\* positions of the rendered string where an assistant marker starts
ModelMarkers(s) == {i \in 1..(Len(s) - 1) : s[i] = SOT /\ s[i + 1] = "model"}

\* C13: whenever str() is taken of a history with as many answers as
\* questions and at least one, the rendered string ends with the last answer
\* as a closed assistant turn, and every assistant marker in it is followed
\* by a newline, an answer and the end-of-turn marker.
C13_EqualHistoryEndsClosed ==
  (rendered.called /\ Len(rendered.qs) = Len(rendered.as) /\ Len(rendered.qs) > 0)
    => /\ EndsWith(rendered.out, ModelTurn(rendered.as[Len(rendered.as)]))
       /\ \A i \in ModelMarkers(rendered.out) : ClosingAt(rendered.out, i) > 0
       /\ Cardinality(ModelMarkers(rendered.out)) = Len(rendered.as)

\* two questions and two answers rendered
C13_Witness ==
  /\ rendered.called
  /\ Len(rendered.qs) = 2
  /\ Len(rendered.as) = 2
  /\ rendered.qs = questions
  /\ rendered.as = answers
  /\ EndsWith(rendered.out, <<EOT>>)

\* ------------------------------------------------------------ the session
\* a _generate thread that has been started and has not finished
InFlight(w) == workers[w].pc \notin {"idle", "done"}

\* a message handed to handle_user_message, by the view or by a direct caller
Submitted == CallHandleUserMessage \/ OnSendClicked

\* C1: at most one generation is in flight: no two _generate threads are
\* started and unfinished at the same time.
C1_AtMostOneInFlight ==
  Cardinality({w \in Workers : InFlight(w)}) <= 1

\* C2: a generation requested while another one is in flight is rejected at
\* once: no thread is started for it, questions and answers are unchanged, the
\* error notice is delivered and the busy flag stays set.
C2_SecondRequestRejected ==
  [][((Submitted \/ GenerateResponse) /\ (\E w \in Workers : InFlight(w)))
       => /\ workers' = workers
          /\ ui_pc' = "idle"
          /\ questions' = questions
          /\ answers' = answers
          /\ last_error' \in {BusyNotice, ModelBusyNotice}
          /\ _is_generating /\ _is_generating']_vars

\* C3: the current conversation never holds more answers than questions.
C3_AnswersNeverOutnumberQuestions ==
  Len(answers) <= Len(questions)

\* C8: a message submitted while the model is not ready or while the busy flag
\* is set is rejected with a notice and changes neither the history, the busy
\* flag, the status text nor the state of the input controls.
C8_RejectionMutatesNothing ==
  [][(Submitted /\ (~IsReady \/ _is_generating))
       => /\ last_error' \in {NotReadyNotice, BusyNotice}
          /\ ui_pc' = "idle"
          /\ UNCHANGED <<questions, answers, _is_generating, workers>>
          /\ UNCHANGED <<status_var, send_button, input_entry>>]_vars

\* C9: every mutation of the view is executed by the interface thread.
C9_ViewMutatedByInterfaceThreadOnly ==
  view_threads \subseteq {"interface"}

\* C6: every started generation reaches its end with the busy flag cleared,
\* whether prompt returned or raised, and the flag is clear whenever no
\* generation is in flight, so no later request is rejected as busy for ever.
C6_BusyFlagEventuallyCleared ==
  /\ \A w \in Workers :
       InFlight(w) ~> (workers[w].pc = "done" /\ ~_is_generating)
  /\ []((\A w \in Workers : ~InFlight(w)) => ~_is_generating)

\* a generation failed, its thread has finished and the flag is clear again
C6_Witness ==
  /\ \E w \in Workers : workers[w].pc = "done"
  /\ \A w \in Workers : ~InFlight(w)
  /\ last_error = GenerationErrorNotice
  /\ ~_is_generating

\* C7: when prompt raised for a started generation, then once its handler has
\* run the request has appended no answer, the response callback was never
\* invoked for it, the error callback was invoked once, and its question is
\* in the conversation object it was appended to.
C7_FailedGenerationLeavesOrphanQuestion ==
  \A w \in Workers :
    (workers[w].pc = "finally" /\ workers[w].failed)
      => /\ ~workers[w].answered
         /\ workers[w].responses = 0
         /\ workers[w].errors = 1
         /\ workers[w].conv = conv_id
              => \E i \in 1..Len(questions) : questions[i] = workers[w].question

\* a failed generation whose question is the orphan at the end of the history
C7_Witness ==
  \E w \in Workers :
    /\ workers[w].pc = "finally"
    /\ workers[w].failed
    /\ workers[w].conv = conv_id
    /\ Len(questions) = Len(answers) + 1
    /\ last_error = GenerationErrorNotice
    /\ chat_text = <<"system", <<"Error: ", GenerationErrorNotice>>>>

\* the tokenizer or the model could not be loaded
InitializationFailed == init_pc \in {"except", "failed"}

\* C10: when loading the tokenizer or the model raised, the failure is given
\* to the progress callback, is_ready() is false from then on, and every
\* message submitted from then on is rejected as not ready.
C10_FailedInitializationStaysNotReady ==
  /\ [](InitializationFailed => ~IsReady)
  /\ [](init_pc = "failed" => "error" \in last_progress)
  /\ [][InitializationFailed => InitializationFailed']_vars
  /\ [][(InitializationFailed /\ Submitted)
          => /\ last_error' = NotReadyNotice
             /\ ui_pc' = "idle"
             /\ workers' = workers]_vars

\* initialization failed and a message was rejected afterwards
C10_Witness ==
  /\ init_pc = "failed"
  /\ "error" \in last_progress
  /\ last_error = NotReadyNotice

C16_ExactlyOneCallback ==
  \A w \in Workers :
    /\ workers[w].responses + workers[w].errors <= 1
    /\ workers[w].pc = "finally"
         => /\ workers[w].responses + workers[w].errors = 1
            /\ workers[w].answered <=> workers[w].responses = 1
            /\ ~workers[w].answered <=> workers[w].errors = 1

\* the last entry of the chat display is a response of the model
ResponseDisplayed == chat_text[1] = "yoda"

\* C17: once the model is ready, while a response is the last thing displayed
\* the input controls are enabled only if the busy flag is clear, and a
\* message sent through them then is accepted, not rejected as already
\* generating.
C17_InputEnabledOnlyWhenIdle ==
  /\ []((IsReady /\ ResponseDisplayed /\ (send_button = "normal" \/ input_entry = "normal"))
          => ~_is_generating)
  /\ [][(OnSendClicked /\ IsReady /\ ResponseDisplayed)
          => (last_error' # BusyNotice /\ ui_pc' = "generate_response")]_vars

====
